---- MODULE Spec2Model ----
(***************************************************************************)
(* Model of the crate iter_enumeration (src/src/lib.rs): the macro         *)
(* impl_iter_enum! and its five instantiations IterEnum2 .. IterEnum6.     *)
(*                                                                         *)
(* An iterator value is either a producer (any type implementing Iterator, *)
(* supplied by the caller) or a value of one of the generated enums, whose *)
(* payload is again an iterator value.  The mutable state of a producer    *)
(* lives in a heap cell, so that a producer whose Clone shares its state   *)
(* (a closure over a &Cell, an Rc) can be told from one whose Clone        *)
(* copies it.                                                              *)
(***************************************************************************)
EXTENDS Integers, Sequences, FiniteSets, TLC

VARIABLES pc, heap, recv, direct, u, outU, outD, made, c, outC, its, idx, acc, sum

vars == <<pc, heap, recv, direct, u, outU, outD, made, c, outC, its, idx, acc, sum>>

---------------------------------------------------------------------------
(* Bounds of the model. *)

\* longest script of a producer
MaxLen == 2
\* most calls of next made on one iterator after its construction
MaxCalls == 3
\* most calls of next made on a producer before it is wrapped
MaxPre == 1
\* largest end n of a range 0..n in the sequence-of-unions scenario
MaxRange == 3

---------------------------------------------------------------------------
(* Option<I> *)

None == <<>>
Some(x) == <<x>>

Elems == {1, 2}
Options == {None} \cup {Some(x) : x \in Elems}

\* what a producer returns call by call; once the script is over it returns
\* None.  A script with a None before a Some is a producer that is not fused.
Scripts == UNION {[1..n -> Options] : n \in 0..MaxLen}

Cells == {1, 2, 3}
NoIter == [kind |-> "none"]

---------------------------------------------------------------------------
(* The five macro invocations, lib.rs 85-128, argument for argument. *)

Arm(A, method, Before, After) ==
    [A |-> A, iter_enum_a |-> method, Before |-> Before, After |-> After]

IterEnum2 ==
    [EnumId |-> "IterEnum2", IntoTraitId |-> "IntoIterEnum2",
     arms |-> << Arm("A", "iter_enum_2a", <<>>, <<"B">>),
                 Arm("B", "iter_enum_2b", <<"A">>, <<>>) >>]

IterEnum3 ==
    [EnumId |-> "IterEnum3", IntoTraitId |-> "IntoIterEnum3",
     arms |-> << Arm("A", "iter_enum_3a", <<>>, <<"B", "C">>),
                 Arm("B", "iter_enum_3b", <<"A">>, <<"C">>),
                 Arm("C", "iter_enum_3c", <<"A", "B">>, <<>>) >>]

IterEnum4 ==
    [EnumId |-> "IterEnum4", IntoTraitId |-> "IntoIterEnum4",
     arms |-> << Arm("A", "iter_enum_4a", <<>>, <<"B", "C", "D">>),
                 Arm("B", "iter_enum_4b", <<"A">>, <<"C", "D">>),
                 Arm("C", "iter_enum_4c", <<"A", "B">>, <<"D">>),
                 Arm("D", "iter_enum_4d", <<"A", "B", "C">>, <<>>) >>]

IterEnum5 ==
    [EnumId |-> "IterEnum5", IntoTraitId |-> "IntoIterEnum5",
     arms |-> << Arm("A", "iter_enum_5a", <<>>, <<"B", "C", "D", "E">>),
                 Arm("B", "iter_enum_5b", <<"A">>, <<"C", "D", "E">>),
                 Arm("C", "iter_enum_5c", <<"A", "B">>, <<"D", "E">>),
                 Arm("D", "iter_enum_5d", <<"A", "B", "C">>, <<"E">>),
                 Arm("E", "iter_enum_5e", <<"A", "B", "C", "D">>, <<>>) >>]

IterEnum6 ==
    [EnumId |-> "IterEnum6", IntoTraitId |-> "IntoIterEnum6",
     arms |-> << Arm("A", "iter_enum_6a", <<>>, <<"B", "C", "D", "E", "F">>),
                 Arm("B", "iter_enum_6b", <<"A">>, <<"C", "D", "E", "F">>),
                 Arm("C", "iter_enum_6c", <<"A", "B">>, <<"D", "E", "F">>),
                 Arm("D", "iter_enum_6d", <<"A", "B", "C">>, <<"E", "F">>),
                 Arm("E", "iter_enum_6e", <<"A", "B", "C", "D">>, <<"F">>),
                 Arm("F", "iter_enum_6f", <<"A", "B", "C", "D", "F">>, <<>>) >>]

Invocations == {IterEnum2, IterEnum3, IterEnum4, IterEnum5, IterEnum6}

InvOf(EnumId) == CHOOSE inv \in Invocations : inv.EnumId = EnumId

---------------------------------------------------------------------------
(* What the macro generates, lib.rs 59-81. *)

\* pub enum $EnumId<$($A),*> { $($A($A),)* }: the variants in declaration
\* order, the i-th variant holding a value of the i-th type parameter
Variants(inv) == [i \in 1..Len(inv.arms) |-> inv.arms[i].A]

Arity(inv) == Len(Variants(inv))

\* position of a variant among the variants of its enum
SlotIndex(inv, A) == CHOOSE i \in 1..Arity(inv) : Variants(inv)[i] = A

\* the expression $EnumId::$A(inner); ty is the list of type arguments, the
\* type of the payload written "Self"
EnumValue(EnumId, A, ty, inner) ==
    [kind |-> "enum", EnumId |-> EnumId, variant |-> A, ty |-> ty, inner |-> inner]

\* DirectVariant with the payload put into the first variant
DirectVariant_first(inv, A, inner) ==
    EnumValue(inv.EnumId, Variants(inv)[1],
              [i \in 1..Arity(inv) |->
                  IF i = SlotIndex(inv, A) THEN "Self" ELSE Variants(inv)[i]],
              inner)

\* naming a variant of the public enum directly, as the crate example does
\* with IterEnum2::B(..): the payload's type is the variant's own parameter
DirectVariant(inv, A, inner) ==
    EnumValue(inv.EnumId, A,
              [i \in 1..Arity(inv) |->
                  IF i = SlotIndex(inv, A) THEN "Self" ELSE Variants(inv)[i]],
              inner)

\* iter_enum_a building the variant of the arm before it
iter_enum_a_previous(inv, arm, self) ==
    EnumValue(inv.EnumId,
              IF arm.Before = <<>> THEN arm.A ELSE arm.Before[Len(arm.Before)],
              arm.Before \o <<"Self">> \o arm.After, self)

\* iter_enum_a wrapping self.skip(1) instead of self
iter_enum_a_skip(inv, arm, self) ==
    EnumValue(inv.EnumId, arm.A, arm.Before \o <<"Self">> \o arm.After,
              IF self.kind = "prod" /\ self.script # <<>>
              THEN [self EXCEPT !.script = Tail(self.script)] ELSE self)

\* fn $iter_enum_a<$($Before,)*$($After,)*>(self)
\*     -> $EnumId<$($Before,)* Self, $($After,)*> { $EnumId::$A(self) }
iter_enum_a(inv, arm, self) ==
    EnumValue(inv.EnumId, arm.A, arm.Before \o <<"Self">> \o arm.After, self)

---------------------------------------------------------------------------
(* Producers: the types the caller puts into the slots.  The crate only    *)
(* requires $A: Iterator<Item = I> (and $A: Clone for the derived Clone).  *)

\* a producer with the given script whose state is heap cell `cell`; rc says
\* that its Clone shares the state instead of copying it
Producer(script, cell, rc) ==
    [kind |-> "prod", script |-> script, cell |-> cell, rc |-> rc]

\* inner.next() on a producer: the next entry of the script, None after it
Producer_next(self, h) ==
    LET n == h[self.cell]
    IN  [ret  |-> IF n < Len(self.script) THEN self.script[n + 1] ELSE None,
         self |-> self,
         heap |-> [h EXCEPT ![self.cell] = n + 1]]

\* inner.clone() on a producer; `fresh` is the cell of a copied state
Producer_clone(self, h, fresh) ==
    IF self.rc
    THEN [self |-> self, heap |-> h]
    ELSE [self |-> [self EXCEPT !.cell = fresh],
          heap |-> [h EXCEPT ![fresh] = h[self.cell]]]

RECURSIVE IterNext(_, _), IterEnum_next(_, _)
RECURSIVE IterClone(_, _, _), IterEnum_clone(_, _, _)

\* next advancing the payload twice and returning the second result
IterEnum_next_twice(self, h) ==
    LET r1 == IterNext(self.inner, h)
        r  == IterNext(r1.self, r1.heap)
    IN  [ret  |-> r.ret,
         self |-> EnumValue(self.EnumId, self.variant, self.ty, r.self),
         heap |-> r.heap]

\* next looking one result ahead: the payload is advanced once more than asked
\* on the first call that finds it at its start
IterEnum_next_lookahead(self, h) ==
    LET r == IterNext(self.inner, h)
    IN  [ret  |-> r.ret,
         self |-> EnumValue(self.EnumId, self.variant, self.ty, r.self),
         heap |-> IF r.ret = None THEN r.heap
                  ELSE IterNext(r.self, r.heap).heap]

\* next leaving the union in its first variant
IterEnum_next_retag(self, h) ==
    LET r == IterNext(self.inner, h)
    IN  [ret  |-> r.ret,
         self |-> EnumValue(self.EnumId, Variants(InvOf(self.EnumId))[1],
                            self.ty, r.self),
         heap |-> r.heap]

\* next that remembers a None and answers None from then on (a fused union)
IterEnum_next_fused(self, h) ==
    IF "fused" \in DOMAIN self
    THEN [ret |-> None, self |-> self, heap |-> h]
    ELSE LET r == IterNext(self.inner, h)
             v == EnumValue(self.EnumId, self.variant, self.ty, r.self)
         IN  [ret  |-> r.ret,
              self |-> IF r.ret = None
                       THEN [kind |-> v.kind, EnumId |-> v.EnumId,
                             variant |-> v.variant, ty |-> v.ty,
                             inner |-> v.inner, fused |-> TRUE]
                       ELSE v,
              heap |-> r.heap]

\* next that, around a payload that is itself a union, answers from a copy
\* of the payload and leaves the payload where it was
IterEnum_next_copy(self, h) ==
    LET r == IterNext(self.inner, h)
    IN  [ret  |-> r.ret,
         self |-> IF self.inner.kind = "enum" THEN self
                  ELSE EnumValue(self.EnumId, self.variant, self.ty, r.self),
         heap |-> IF self.inner.kind = "enum" THEN h ELSE r.heap]

\* next whose arm for variant B does not forward
IterEnum_next_armB(self, h) ==
    LET r == IterNext(self.inner, h)
    IN  IF self.variant = "B" THEN [ret |-> None, self |-> self, heap |-> h]
        ELSE [ret  |-> r.ret,
              self |-> EnumValue(self.EnumId, self.variant, self.ty, r.self),
              heap |-> r.heap]

\* fn next(&mut self) -> Option<Self::Item> {
\*     match self { $(Self::$A(inner) => inner.next()),* } }
\* the arm of the active variant binds the payload in place and returns the
\* result of its next
IterEnum_next(self, h) ==
    LET inv == InvOf(self.EnumId)
        arm == CHOOSE a \in {inv.arms[i] : i \in 1..Len(inv.arms)} :
                   a.A = self.variant
        r   == IterNext(self.inner, h)
    IN  [ret  |-> r.ret,
         self |-> EnumValue(self.EnumId, arm.A, self.ty, r.self),
         heap |-> r.heap]

\* dispatch of Iterator::next on the type of the value
IterNext(it, h) ==
    IF it.kind = "enum" THEN IterEnum_next(it, h) ELSE Producer_next(it, h)

\* a clone that hands out the value itself: the payload is not cloned
IterEnum_clone_shallow(self, h, fresh) ==
    [self |-> self, heap |-> h]

\* #[derive(Clone)]: the same variant around the clone of the payload
IterEnum_clone(self, h, fresh) ==
    LET r == IterClone(self.inner, h, fresh)
    IN  [self |-> EnumValue(self.EnumId, self.variant, self.ty, r.self),
         heap |-> r.heap]

\* dispatch of Clone::clone on the type of the value
IterClone(it, h, fresh) ==
    IF it.kind = "enum" THEN IterEnum_clone(it, h, fresh)
    ELSE Producer_clone(it, h, fresh)

---------------------------------------------------------------------------
(* Reading an iterator value. *)

RECURSIVE Innermost(_)
\* the producer at the bottom of a nest of unions
Innermost(it) == IF it.kind = "enum" THEN Innermost(it.inner) ELSE it

RECURSIVE Tags(_)
\* the active slots of a nest of unions, outermost first
Tags(it) ==
    IF it.kind = "enum"
    THEN <<[EnumId |-> it.EnumId,
            slot |-> SlotIndex(InvOf(it.EnumId), it.variant)]>> \o Tags(it.inner)
    ELSE <<>>

\* how often the producer inside `it` has been advanced
Pos(it, h) == h[Innermost(it).cell]

---------------------------------------------------------------------------
(* Scenario 1 (Spec): a producer is advanced some times, moved into a      *)
(* union, possibly moved on into an outer union, and the union is          *)
(* advanced.  `direct` is a second producer of the same type and script    *)
(* that is advanced directly, call for call, for comparison.               *)

Idle == /\ c = NoIter /\ outC = <<>>
        /\ its = <<>> /\ idx = 0 /\ acc = 0 /\ sum = 0

Init ==
    /\ pc = "fresh"
    /\ heap = [x \in Cells |-> 0]
    /\ \E s \in Scripts :
          /\ recv = Producer(s, 1, FALSE)
          /\ direct = Producer(s, 2, FALSE)
    /\ u = NoIter
    /\ outU = <<>> /\ outD = <<>>
    /\ made = <<>>
    /\ Idle

\* the record of one construction of a union value: the operation, its
\* argument, and how often the producer had been advanced when it was moved
\* into its first union
Made(how, inv, k, arg, pos) ==
    [how |-> how, N |-> Arity(inv), k |-> k,
     op |-> IF how = "wrap" THEN inv.arms[k].iter_enum_a ELSE inv.EnumId,
     arg |-> arg, argPos |-> pos]

\* recv.next() before the producer is wrapped (and the same on `direct`)
PreAdvance ==
    /\ pc = "fresh"
    /\ heap[recv.cell] < MaxPre
    /\ heap' = Producer_next(direct, Producer_next(recv, heap).heap).heap
    /\ UNCHANGED <<pc, recv, direct, u, outU, outD, made, c, outC, its, idx, acc, sum>>

\* recv.iter_enum_Nx(): the receiver is moved into the union
Wrap(inv, k) ==
    /\ pc = "fresh"
    /\ u' = iter_enum_a(inv, inv.arms[k], recv)
    /\ recv' = NoIter
    /\ made' = Append(made, Made("wrap", inv, k, recv, Pos(recv, heap)))
    /\ pc' = "wrapped"
    /\ UNCHANGED <<heap, direct, outU, outD, c, outC, its, idx, acc, sum>>

\* IterEnumN::X(recv): the variant named directly, lib.rs 29
Construct(inv, k) ==
    /\ pc = "fresh"
    /\ u' = DirectVariant(inv, inv.arms[k].A, recv)
    /\ recv' = NoIter
    /\ made' = Append(made, Made("variant", inv, k, recv, Pos(recv, heap)))
    /\ pc' = "wrapped"
    /\ UNCHANGED <<heap, direct, outU, outD, c, outC, its, idx, acc, sum>>

\* u.iter_enum_Nx(): a union is an Iterator, so the blanket impl of line 81
\* gives it the wrap operations too
WrapUnion(inv, k) ==
    /\ pc = "wrapped"
    /\ u' = iter_enum_a(inv, inv.arms[k], u)
    /\ made' = Append(made, Made("wrap", inv, k, u, made[1].argPos))
    /\ pc' = "nested"
    /\ UNCHANGED <<heap, recv, direct, outU, outD, c, outC, its, idx, acc, sum>>

\* u.next(), and direct.next() for comparison
Advance ==
    /\ pc \in {"wrapped", "nested"}
    /\ Len(outU) < MaxCalls
    /\ LET r == IterNext(u, heap)
           d == Producer_next(direct, r.heap)
       IN  /\ u' = r.self
           /\ outU' = Append(outU, r.ret)
           /\ outD' = Append(outD, d.ret)
           /\ heap' = d.heap
    /\ UNCHANGED <<pc, recv, direct, made, c, outC, its, idx, acc, sum>>

Next ==
    \/ PreAdvance
    \/ \E inv \in Invocations : \E k \in 1..Len(inv.arms) : Wrap(inv, k)
    \/ \E inv \in Invocations : \E k \in 1..Len(inv.arms) : Construct(inv, k)
    \/ \E inv \in Invocations : \E k \in 1..Len(inv.arms) : WrapUnion(inv, k)
    \/ Advance

Spec == Init /\ [][Next]_vars

---------------------------------------------------------------------------
(* Properties of scenario 1. *)

Built == pc \in {"wrapped", "nested"}

\* the i-th result of a producer with script s, counted from its creation
ScriptAt(s, i) == IF i <= Len(s) THEN s[i] ELSE None

\* the elements up to the first None: what collect, and count, see
RECURSIVE Collect(_)
Collect(out) ==
    IF out = <<>> \/ Head(out) = None THEN <<>>
    ELSE <<Head(out)[1]>> \o Collect(Tail(out))

\* the wrap operation the k-th slot of arity N is documented to have
MethodName(N, k) ==
    << <<>>,
       <<"iter_enum_2a", "iter_enum_2b">>,
       <<"iter_enum_3a", "iter_enum_3b", "iter_enum_3c">>,
       <<"iter_enum_4a", "iter_enum_4b", "iter_enum_4c", "iter_enum_4d">>,
       <<"iter_enum_5a", "iter_enum_5b", "iter_enum_5c", "iter_enum_5d",
         "iter_enum_5e">>,
       <<"iter_enum_6a", "iter_enum_6b", "iter_enum_6c", "iter_enum_6d",
         "iter_enum_6e", "iter_enum_6f">> >>[N][k]

EnumName(N) ==
    <<"", "IterEnum2", "IterEnum3", "IterEnum4", "IterEnum5", "IterEnum6">>[N]

\* the slots the constructions recorded in `made` name, outermost first
RECURSIVE NamedTags(_)
NamedTags(ms) ==
    IF ms = <<>> THEN <<>>
    ELSE NamedTags(Tail(ms)) \o <<[EnumId |-> EnumName(Head(ms).N), slot |-> Head(ms).k]>>

\* C1: forwarding correctness.  The results of the calls of next on the
\* union are, call for call, the results of the same calls on the producer
\* used directly: same elements, same order, the first None at the same call,
\* hence the same collect and the same count.
C1_Forwarding ==
    Built =>
        /\ outU = outD
        /\ Collect(outU) = Collect(outD)
        /\ \A i \in 1..Len(outU) : (outU[i] = None) <=> (outD[i] = None)

C1_Witness ==
    /\ Built
    /\ Len(outU) = 3
    /\ outU[1] # None /\ outU[2] # None /\ outU[1] # outU[2] /\ outU[3] = None
    /\ u.EnumId = "IterEnum5" /\ u.variant = "D"

\* C2: slot identity.  A call of next on a union, also one made after None
\* was returned, leaves the active slot of the union (and of every union
\* nested in it) as it was.
C2_SlotIdentity ==
    [][(Built /\ outU' # outU) => (Built' /\ Tags(u') = Tags(u))]_vars

C2_Witness ==
    /\ Built
    /\ Len(outU) = 3 /\ outU[1] = None
    /\ Tags(u)[1].slot = 3

\* C3: one-to-one advancing.  After n calls of next on the union the producer
\* has been advanced exactly n times, and the i-th result of the union is the
\* result of the i-th of those calls of the producer.
C3_OneToOne ==
    Built =>
        /\ Pos(u, heap) = made[1].argPos + Len(outU)
        /\ \A i \in 1..Len(outU) :
              outU[i] = ScriptAt(Innermost(u).script, made[1].argPos + i)

C3_Witness ==
    /\ Built
    /\ Len(outU) = 2 /\ made[1].argPos = 1
    /\ outU[1] # None
    /\ Pos(u, heap) = 3

\* C4: wrap installs at the named slot.  The union made by the k-th wrap
\* operation of arity N, iter_enum_Nx, is of the enum of arity N, its active
\* slot is the k-th, its payload is the receiver, and the k-th of its N type
\* arguments is the receiver's type; so for iter_enum_6f: IterEnum6, slot F.
C4_WrapInstalls ==
    \A N \in 2..6 : \A k \in 1..N :
        (Built /\ made[Len(made)].how = "wrap"
               /\ made[Len(made)].op = MethodName(N, k)) =>
            /\ u.EnumId = EnumName(N)
            /\ Tags(u)[1].slot = k
            /\ u.variant = <<"A", "B", "C", "D", "E", "F">>[k]
            /\ Len(u.ty) = N /\ u.ty[k] = "Self"
            /\ \A j \in 1..N : j # k => u.ty[j] # "Self"
            /\ u.inner = made[Len(made)].arg

C4_Witness ==
    /\ pc = "wrapped"
    /\ made[1].op = "iter_enum_6f"
    /\ u.EnumId = "IterEnum6" /\ u.variant = "F"
    /\ outU = <<>>

\* C5: no added fusing.  Once the union has returned None, a further call of
\* next still advances the producer by one and returns what the producer
\* returns, be it an element or None again.
C5_NoAddedFusing ==
    [][(Built /\ outU' # outU /\ \E i \in 1..Len(outU) : outU[i] = None) =>
          /\ Pos(u', heap') = Pos(u, heap) + 1
          /\ outU'[Len(outU')] =
                 Producer_next(Innermost(u), heap).ret]_vars

C5_Witness ==
    /\ Built
    /\ Len(outU) = 3
    /\ outU[1] = None /\ outU[2] # None /\ outU[3] = None

\* C6: nested wrapping composes.  A union wrapped into an outer union yields
\* the sequence of its producer, one advance of the producer per advance of
\* the outer union, and the outer and the inner active slot stay the ones
\* named at construction.
C6_Nested ==
    pc = "nested" =>
        /\ u.kind = "enum" /\ u.inner.kind = "enum"
        /\ Tags(u) = NamedTags(made)
        /\ Innermost(u) = made[1].arg
        /\ outU = outD
        /\ Pos(u, heap) = made[1].argPos + Len(outU)

C6_Witness ==
    /\ pc = "nested"
    /\ made[1].how = "wrap"
    /\ u.EnumId = "IterEnum2" /\ u.variant = "B"
    /\ u.inner.EnumId = "IterEnum4" /\ u.inner.variant = "C"
    /\ Len(outU) = 3 /\ outU[1] # None /\ outU[2] # None /\ outU[3] = None

\* C8: wrap is a pure move.  Right after the wrap the payload of the union
\* is the receiver, in the state it was in before the call: a producer that
\* had been advanced j times yields through the union its (j+1)-th result
\* first.  Every wrap succeeds: a fresh receiver can always be wrapped.
C8_PureMove ==
    /\ Built =>
          /\ Innermost(u) = made[1].arg
          /\ Pos(made[1].arg, heap) = made[1].argPos + Len(outU)
          /\ Len(outU) >= 1 =>
                outU[1] = ScriptAt(made[1].arg.script, made[1].argPos + 1)
    /\ pc = "fresh" =>
          \A inv \in Invocations : \A k \in 1..Len(inv.arms) :
              ENABLED Wrap(inv, k)

C8_Witness ==
    /\ pc = "wrapped"
    /\ made[1].how = "wrap" /\ made[1].argPos = 1
    /\ Len(made[1].arg.script) = 2
    /\ Len(outU) = 1 /\ outU[1] = made[1].arg.script[2] /\ outU[1] # None

\* C9 as stated: every union value is created by a wrap operation, never by
\* naming a variant of the enum directly.
C9_OnlyThroughWrap ==
    \A i \in 1..Len(made) : made[i].how = "wrap"

\* C9 amended: a union value is created by a wrap operation or by naming a
\* public variant directly, as the crate's own example does; either way its
\* active slot is the slot named and its payload is the value given, and it
\* forwards to it.
C9_WrapOrVariant ==
    /\ \A i \in 1..Len(made) : made[i].how \in {"wrap", "variant"}
    /\ Built => Len(made) >= 1
    /\ (Built /\ made[1].how = "variant") =>
          /\ Tags(u) = NamedTags(made)
          /\ Innermost(u) = made[1].arg
          /\ outU = outD
          /\ pc = "wrapped" =>
                \A j \in 1..Len(u.ty) : u.ty[j] = "Self" <=> j = made[1].k

C9_Witness ==
    /\ pc = "wrapped"
    /\ made[1].how = "variant" /\ made[1].op = "IterEnum2" /\ made[1].k = 2
    /\ u.variant = "B"
    /\ Len(outU) = 2 /\ outU[1] # None

---------------------------------------------------------------------------
(* Scenario 2 (SpecClone): a union is advanced, cloned, and the original   *)
(* and the clone are advanced independently of each other.                 *)

InitClone ==
    /\ pc = "own"
    /\ heap = [x \in Cells |-> 0]
    /\ recv = NoIter /\ direct = NoIter
    /\ \E s \in Scripts : \E rc \in BOOLEAN :
       \E inv \in Invocations : \E k \in 1..Len(inv.arms) :
          /\ u = iter_enum_a(inv, inv.arms[k], Producer(s, 1, rc))
          /\ made = <<Made("wrap", inv, k, Producer(s, 1, rc), 0)>>
    /\ outU = <<>> /\ outD = <<>>
    /\ Idle

\* u.next() on the original, before or after it was cloned
NextOriginal ==
    /\ pc \in {"own", "cloned"}
    /\ Len(outU) < MaxCalls
    /\ LET r == IterNext(u, heap)
       IN  /\ u' = r.self
           /\ outU' = Append(outU, r.ret)
           /\ heap' = r.heap
    /\ UNCHANGED <<pc, recv, direct, outD, made, c, outC, its, idx, acc, sum>>

\* let c = u.clone()
DoClone ==
    /\ pc = "own"
    /\ LET r == IterClone(u, heap, 2)
       IN  /\ c' = r.self
           /\ heap' = r.heap
    /\ made' = Append(made, [how |-> "clone", at |-> Len(outU),
                               pos |-> Pos(u, heap)])
    /\ pc' = "cloned"
    /\ UNCHANGED <<recv, direct, u, outU, outD, outC, its, idx, acc, sum>>

\* c.next() on the clone
NextCloned ==
    /\ pc = "cloned"
    /\ Len(outC) < MaxCalls
    /\ LET r == IterNext(c, heap)
       IN  /\ c' = r.self
           /\ outC' = Append(outC, r.ret)
           /\ heap' = r.heap
    /\ UNCHANGED <<pc, recv, direct, u, outU, outD, made, its, idx, acc, sum>>

NextClone == NextOriginal \/ DoClone \/ NextCloned

SpecClone == InitClone /\ [][NextClone]_vars

\* the clone has the slot and the producer type of the original
SameShape ==
    /\ Tags(c) = Tags(u)
    /\ Innermost(c).script = Innermost(u).script

\* since the clone was taken, each of the two has been advanced exactly by its
\* own calls and has yielded the results that were left when it was taken
Independent ==
    LET m == made[2]
        s == Innermost(u).script
    IN  /\ Pos(u, heap) = m.pos + (Len(outU) - m.at)
        /\ Pos(c, heap) = m.pos + Len(outC)
        /\ \A i \in 1..Len(outC) : outC[i] = ScriptAt(s, m.pos + i)
        /\ \A i \in 1..(Len(outU) - m.at) :
              outU[m.at + i] = ScriptAt(s, m.pos + i)

\* C10 as stated: the clone of a union has the same slot and producer state,
\* calls of next on either of the two leave the other unchanged, and each
\* yields the same remaining sequence, whatever the producer type.
C10_CloneIndependent ==
    pc = "cloned" => (SameShape /\ Independent)

\* C10 amended: the clone of a union has the same active slot around the
\* clone of the producer; when the producer's own clone shares no state with
\* the producer, calls of next on either of the two leave the other
\* unchanged and each yields the same remaining sequence.
C10_CloneIndependentOfDeepClone ==
    pc = "cloned" =>
        /\ SameShape
        /\ Innermost(c) = Producer_clone(Innermost(u), heap, 2).self
        /\ ~Innermost(u).rc => Independent

C10_Witness ==
    /\ pc = "cloned"
    /\ ~Innermost(u).rc
    /\ made[2].at = 1
    /\ Len(outU) = 3 /\ Len(outC) = 1
    /\ outC[1] # None /\ outC[1] = outU[2]
    /\ Tags(c)[1].slot = 2

---------------------------------------------------------------------------
(* Scenario 3 (SpecSeq): the test iterator_of_iterators, lib.rs 167-177.   *)
(* Three unions of the one type IterEnum3 are the elements of a sequence;  *)
(* fold sums each of them with Iterator::sum and adds the sums up.         *)

\* 0..n
Range(n) == [i \in 1..n |-> Some(i - 1)]

\* .map(|i| i - 1)
Map_sub1(s) == [i \in 1..Len(s) |-> Some(s[i][1] - 1)]

\* .filter(|i| i % 2 == 0)
Filter_even(s) == SelectSeq(s, LAMBDA o : o[1] % 2 = 0)

InitSeq ==
    /\ pc = "fold"
    /\ heap = [x \in Cells |-> 0]
    /\ recv = NoIter /\ direct = NoIter
    /\ u = NoIter /\ c = NoIter
    /\ outU = <<>> /\ outD = <<>> /\ outC = <<>>
    /\ made = <<>>
    /\ \E n1, n2, n3 \in 0..MaxRange : \E k1, k2, k3 \in 1..Len(IterEnum3.arms) :
          its = << iter_enum_a(IterEnum3, IterEnum3.arms[k1],
                               Producer(Range(n1), 1, FALSE)),
                   iter_enum_a(IterEnum3, IterEnum3.arms[k2],
                               Producer(Map_sub1(Range(n2)), 2, FALSE)),
                   iter_enum_a(IterEnum3, IterEnum3.arms[k3],
                               Producer(Filter_even(Range(n3)), 3, FALSE)) >>
    /\ idx = 0 /\ acc = 0 /\ sum = 0

\* fold takes the next union of the sequence and starts it.sum::<i32>()
FoldTake ==
    /\ pc = "fold"
    /\ idx < Len(its)
    /\ idx' = idx + 1
    /\ u' = its[idx + 1]
    /\ acc' = 0
    /\ pc' = "sum"
    /\ UNCHANGED <<heap, recv, direct, outU, outD, made, c, outC, its, sum>>

\* one step of sum: next on the union; an element is added, None ends the
\* sum and the closure |sum, it| sum + it.sum() adds it to the total
SumStep ==
    /\ pc = "sum"
    /\ LET r == IterNext(u, heap)
       IN  /\ u' = r.self
           /\ heap' = r.heap
           /\ IF r.ret = None
              THEN /\ sum' = sum + acc
                   /\ pc' = "fold"
                   /\ acc' = acc
              ELSE /\ acc' = acc + r.ret[1]
                   /\ UNCHANGED <<sum, pc>>
    /\ UNCHANGED <<recv, direct, outU, outD, made, c, outC, its, idx>>

\* the sequence is over: fold returns
FoldDone ==
    /\ pc = "fold"
    /\ idx = Len(its)
    /\ pc' = "done"
    /\ UNCHANGED <<heap, recv, direct, u, outU, outD, made, c, outC, its, idx, acc, sum>>

NextSeq == FoldTake \/ SumStep \/ FoldDone

SpecSeq == InitSeq /\ [][NextSeq]_vars

\* the sum of the items a script yields before its first None
RECURSIVE SumItems(_)
SumItems(s) ==
    IF s = <<>> \/ Head(s) = None THEN 0 ELSE Head(s)[1] + SumItems(Tail(s))

\* the sequence of the test: 0..1 in slot A, (0..2).map(|i| i - 1) in slot B,
\* (0..3).filter(|i| i % 2 == 0) in slot C
TestSequence ==
    /\ Len(its) = 3
    /\ Tags(its[1]) = <<[EnumId |-> "IterEnum3", slot |-> 1]>>
    /\ Tags(its[2]) = <<[EnumId |-> "IterEnum3", slot |-> 2]>>
    /\ Tags(its[3]) = <<[EnumId |-> "IterEnum3", slot |-> 3]>>
    /\ its[1].inner.script = <<Some(0)>>
    /\ its[2].inner.script = <<Some(0 - 1), Some(0)>>
    /\ its[3].inner.script = <<Some(0), Some(2)>>

\* C7: sequence of unions.  When fold has returned, the total is the sum of
\* all items of the wrapped producers, whatever slot each union has active;
\* for the sequence of the test it is 1.
C7_SequenceOfUnions ==
    pc = "done" =>
        /\ sum = SumItems(its[1].inner.script) + SumItems(its[2].inner.script)
                   + SumItems(its[3].inner.script)
        /\ TestSequence => sum = 1

C7_Witness ==
    /\ pc = "done"
    /\ TestSequence
    /\ sum = 1

====
